---------------------------- MODULE Spec2Model ----------------------------
(***************************************************************************)
(* Model of the two scripts of LaVideoLaPlusVue/Data:                      *)
(*   fetch_channel_avatars.py  - the avatar enrichment pipeline            *)
(*   visualize_youtube_db.py   - the report pipeline (its Grouper)         *)
(*                                                                         *)
(* A JSON object (a Python dict) is a function whose DOMAIN is the set of  *)
(* keys that are present; a JSON array (a Python list) is a sequence.      *)
(* Every scalar of the dataset is a string.                                *)
(***************************************************************************)
EXTENDS Integers, Sequences, FiniteSets, TLC

(***************************************************************************)
(* Bounds of the model.                                                    *)
(***************************************************************************)
\* longest record collection whose records are chosen freely
MaxRecords == 3
\* the longest lists of channel ids hold MaxFullBatches full batches, plus one id
MaxFullBatches == 2
\* most items in one API response
MaxItems == 2
\* longest record collection given to the Grouper
MaxVideos == 4

(***************************************************************************)
(* Program constants.                                                      *)
(***************************************************************************)
batch_size == 50
PLACEHOLDER_KEY == "YOUR_YOUTUBE_API_KEY_HERE"
DATA_JSON_PATH == "data.json"
BACKUP_PATH == "data_backup.json"
\* faulty variant: the qualities tried from the worst to the best
QualitiesWorstFirst == <<"default", "medium", "high">>
\* the order of priority of the thumbnails: high > medium > default
Qualities == <<"high", "medium", "default">>

\* Python's None, and Python's truth value of a str-or-None
None == "None"
Truthy(v) == v /= None /\ v /= ""

Min(a, b) == IF a < b THEN a ELSE b
Range(s) == {s[k] : k \in 1..Len(s)}
EmptyMap == <<>>

(***************************************************************************)
(* The datasets the pipelines are run on.                                  *)
(***************************************************************************)
ChannelId(k) == "UC" \o ToString(k)
VideoId(i) == "v" \o ToString(i)
\* the URL the API serves for quality q of channel c
UrlOf(c, q) == c \o "/" \o q

\* A record of the dataset: ch = 0 is a record without channelId; avatar is
\* None when the record has no channelAvatarUrl yet.
Record(i, ch, avatar) ==
    LET base == [id |-> VideoId(i), title |-> "t"]
        withCh == IF ch = 0 THEN base
                  ELSE base @@ [channelId |-> ChannelId(ch),
                                channelTitle |-> "T" \o ToString(ch)]
    IN  IF avatar = None THEN withCh
        ELSE withCh @@ [channelAvatarUrl |-> avatar]

Shapes == {<<0, None>>, <<1, None>>, <<2, None>>, <<1, "old">>}
SmallCollections ==
    UNION {{[i \in 1..n |-> Record(i, s[i][1], s[i][2])] : s \in [1..n -> Shapes]}
           : n \in 0..MaxRecords}
\* n records of n distinct channels
LargeCollection(n) == [i \in 1..n |-> Record(i, i, None)]
\* the datasets of the runs: the small ones, and one that needs two batches
Collections == SmallCollections \cup {LargeCollection(batch_size + 1)}

\* the lists of unique channel ids given to the Batch Fetcher on its own
IdList(n) == [k \in 1..n |-> ChannelId(k)]
ListSizes ==
    (0..MaxRecords)
    \cup {k * batch_size + d : k \in 1..MaxFullBatches, d \in {-1, 0, 1}}
IdLists == {IdList(n) : n \in ListSizes}


(***************************************************************************)
(* State of one run of fetch_channel_avatars.py.                           *)
(***************************************************************************)
VARIABLES
    YOUTUBE_API_KEY, \* the configured credential
    files,           \* the disk: path -> [st, val]
    pc,              \* the position of main()
    exitCode,        \* the exit status, meaningful once pc = "done"
    fatal,           \* which fatal diagnostic was printed, "none" if none
    data,            \* main's data, the collection in memory
    channel_ids,     \* list(channel_ids), the argument of the Batch Fetcher
    i,               \* the loop variable of the Batch Fetcher
    avatar_urls,     \* the channelId -> avatarUrl map being built
    \* history of the run
    original,        \* the dataset file as it was before the run
    requests,        \* the batches requested from the API, in order
    chunkLog,        \* per requested batch: the response and whether it raised
    writes           \* the files opened for writing, in order, with the outcome

\* the state of the report pipeline (visualize_youtube_db.py)
VARIABLES videos, sorted_channels, rpc

\* the inputs and results of the functions checked on their own
VARIABLES m_data, m_urls, m_once, m_twice, m_pc,
          s_before, s_items, s_after, s_pc

report_vars == <<videos, sorted_channels, rpc>>
pure_vars == <<m_data, m_urls, m_once, m_twice, m_pc, s_before, s_items, s_after, s_pc>>
run_vars == <<YOUTUBE_API_KEY, files, pc, exitCode, fatal, data, channel_ids, i,
              avatar_urls, original, requests, chunkLog, writes>>
vars == <<run_vars, report_vars, pure_vars>>

(***************************************************************************)
(* The disk.  A file is [st, val]: st is "ok" (val is the JSON document it *)
(* holds), "missing", or "invalid" (not a JSON document: val is <<>>).     *)
(* A JSON document is the list of its objects, an object the list of its   *)
(* members <<key, value>> in the order in which they are written.          *)
(***************************************************************************)
File(st, val) == [st |-> st, val |-> val]

\* the order in which the keys of a record are written: the order of the
\* dict, in which channelAvatarUrl, added last, comes last
FieldOrder == <<"id", "title", "channelId", "channelTitle", "channelAvatarUrl">>
\* faulty variant: only the members known before the enrichment are written
DumpKnownFields(d) ==
    [k \in 1..Len(d) |->
        LET keys == SelectSeq(SubSeq(FieldOrder, 1, Len(FieldOrder) - 1),
                              LAMBDA f : f \in DOMAIN d[k])
        IN  [j \in 1..Len(keys) |-> <<keys[j], d[k][keys[j]]>>]]
\* json.dump(data, f, indent=2, ensure_ascii=False)
json_dump(d) ==
    [k \in 1..Len(d) |->
        LET keys == SelectSeq(FieldOrder, LAMBDA f : f \in DOMAIN d[k])
        IN  [j \in 1..Len(keys) |-> <<keys[j], d[k][keys[j]]>>]]
\* json.load(f): of two members with the same key the last one is kept
json_load(doc) ==
    [k \in 1..Len(doc) |->
        LET ms == doc[k]
            LastOf(f) == CHOOSE j \in 1..Len(ms) :
                            /\ ms[j][1] = f
                            /\ \A h \in (j + 1)..Len(ms) : ms[h][1] /= f
        IN  [f \in {ms[j][1] : j \in 1..Len(ms)} |-> ms[LastOf(f)][2]]]
\* how one open(path, 'w') + json.dump can end
WriteOutcomes == {"ok", "open_fails", "dump_fails"}

\* load_json_data: the value returned, when the file can be read and parsed
load_json_data(file) == json_load(file.val)
LoadRaises(file) == file.st /= "ok"

\* save_json_data: json.dump into a file opened with 'w'; open truncates the
\* file, so a dump that raises leaves a broken document.
save_json_data(d, old, outcome) ==
    CASE outcome = "ok" -> File("ok", json_dump(d))
      [] outcome = "open_fails" -> old
      [] OTHER -> File("invalid", <<>>)
\* faulty variant: the except clause only logs
SaveNeverExits(outcome) == FALSE
\* the except clause of save_json_data ends the process
SaveExits(outcome) == outcome /= "ok"

(***************************************************************************)
(* extract_unique_channel_ids                                              *)
(***************************************************************************)
extract_unique_channel_ids(d) ==
    {d[k].channelId : k \in {j \in 1..Len(d) : "channelId" \in DOMAIN d[j]}}

\* list(channel_ids): a set has no defined iteration order.  The orders
\* considered are the one by first occurrence in the data and its reverse.
FirstPositions(d) ==
    {p \in 1..Len(d) :
        /\ "channelId" \in DOMAIN d[p]
        /\ \A j \in 1..(p - 1) :
              "channelId" \notin DOMAIN d[j] \/ d[j].channelId /= d[p].channelId}
FirstOccurrences(d) ==
    LET P == FirstPositions(d)
        Nth(k) == CHOOSE p \in P : Cardinality({q \in P : q < p}) = k - 1
    IN  [k \in 1..Cardinality(P) |-> d[Nth(k)].channelId]
Reverse(s) == [k \in 1..Len(s) |-> s[Len(s) + 1 - k]]
ListOrders(d) == {FirstOccurrences(d), Reverse(FirstOccurrences(d))}

(***************************************************************************)
(* The API.  An answer to one request is [kind, items]:                    *)
(*   "request_error"  requests.get or raise_for_status raises              *)
(*   "json_error"     response.json() raises                               *)
(*   "no_items"       a JSON object without the key 'items'                *)
(*   "items"          a JSON object with the list 'items'                  *)
(* An item is [id, wf, thumbnails]; wf = FALSE is an item that lacks one   *)
(* of the keys read at lines 110-114, so that reading it raises KeyError.  *)
(***************************************************************************)
Item(c, wf, thumbnails) == [id |-> c, wf |-> wf, thumbnails |-> thumbnails]
Answer(kind, items) == [kind |-> kind, items |-> items]

\* the thumbnails of channel c holding the qualities Q
Thumbnails(c, Q) == [q \in Q |-> [url |-> UrlOf(c, q)]]
\* ... and the same with an empty URL for the qualities in E
ThumbnailsWith(c, Q, E) ==
    [q \in Q |-> [url |-> IF q \in E THEN "" ELSE UrlOf(c, q)]]

SeqsUpTo(S, n) == UNION {[1..k -> S] : k \in 0..n}

\* the channels the answers mention: the first and the last of the batch
AnswerIds(batch) == {batch[1], batch[Len(batch)]}
AnswerItems(batch) ==
    {Item(c, TRUE, Thumbnails(c, Q)) :
        c \in AnswerIds(batch), Q \in {{}, {"high"}, {"medium", "default"}}}
    \cup {Item(batch[1], FALSE, <<>>)}
Answers(batch) ==
    {Answer(k, <<>>) : k \in {"request_error", "json_error", "no_items"}}
    \cup {Answer("items", its) : its \in SeqsUpTo(AnswerItems(batch), MaxItems)}

(***************************************************************************)
(* fetch_channel_avatars_batch                                             *)
(***************************************************************************)
\* faulty variant: the test of line 79 without its second half
KeyNotEmpty(k) == k /= ""
\* line 79
KeyConfigured(k) == k /= "" /\ k /= PLACEHOLDER_KEY

\* line 89: channel_ids[i:i + batch_size], i counted from 0
Batch(ids, k) == SubSeq(ids, k + 1, Min(k + batch_size, Len(ids)))

\* lines 115-121: the URL of the first quality present, None if there is none
RECURSIVE FirstPresent(_, _)
FirstPresent(qs, thumbnails) ==
    IF qs = <<>> THEN None
    ELSE IF Head(qs) \in DOMAIN thumbnails THEN thumbnails[Head(qs)].url
         ELSE FirstPresent(Tail(qs), thumbnails)
SelectAvatar(thumbnails) == FirstPresent(Qualities, thumbnails)

\* line 124
Put(urls, c, u) == [k \in DOMAIN urls \cup {c} |-> IF k = c THEN u ELSE urls[k]]

\* lines 109-127: the loop over the items; [urls, raised] is the map when the
\* loop ends and whether it ended by an exception
RECURSIVE ProcessItems(_, _)
ProcessItems(urls, items) ==
    IF items = <<>> THEN [urls |-> urls, raised |-> FALSE]
    ELSE LET item == Head(items) IN
         IF ~item.wf THEN [urls |-> urls, raised |-> TRUE]
         ELSE LET avatar_url == SelectAvatar(item.thumbnails) IN
              IF Truthy(avatar_url)
              THEN ProcessItems(Put(urls, item.id, avatar_url), Tail(items))
              ELSE ProcessItems(urls, Tail(items))

\* lines 102-140: the body of the try and its two except clauses
HandleAnswer(urls, answer) ==
    CASE answer.kind \in {"request_error", "json_error"} ->
            [urls |-> urls, raised |-> TRUE]
      [] answer.kind = "no_items" -> [urls |-> urls, raised |-> FALSE]
      [] OTHER -> ProcessItems(urls, answer.items)

\* the entries of map b that map a does not hold as they are
Delta(a, b) == [k \in {c \in DOMAIN b : c \notin DOMAIN a \/ a[c] /= b[c]} |-> b[k]]

(***************************************************************************)
(* enrich_data_with_avatars                                                *)
(***************************************************************************)
\* faulty variant: every record gets the field, None when the channel is unknown
EnrichItemAlways(item, urls) ==
    [k \in DOMAIN item \cup {"channelAvatarUrl"} |->
        IF k /= "channelAvatarUrl" THEN item[k]
        ELSE IF "channelId" \in DOMAIN item /\ item.channelId \in DOMAIN urls
             THEN urls[item.channelId] ELSE None]
\* lines 150-151
EnrichItem(item, urls) ==
    IF "channelId" \in DOMAIN item /\ item.channelId \in DOMAIN urls
    THEN [k \in DOMAIN item \cup {"channelAvatarUrl"} |->
            IF k = "channelAvatarUrl" THEN urls[item.channelId] ELSE item[k]]
    ELSE item
\* faulty variant: the enriched records are appended to the list instead of replaced
EnrichAppending(d, urls) ==
    d \o SelectSeq([k \in 1..Len(d) |-> EnrichItem(d[k], urls)],
                   LAMBDA r : "channelId" \in DOMAIN r /\ r.channelId \in DOMAIN urls)
\* lines 149-155: the list is changed in place and returned
enrich_data_with_avatars(d, urls) == [k \in 1..Len(d) |-> EnrichItem(d[k], urls)]

(***************************************************************************)
(* group_videos_by_channel (visualize_youtube_db.py)                       *)
(***************************************************************************)
\* line 22: video['channelId'] and video['channelTitle'] raise KeyError
KeyRaises(video) ==
    "channelId" \notin DOMAIN video \/ "channelTitle" \notin DOMAIN video
\* faulty variant: the key without the avatar
ChannelKeyNoAvatar(video) == <<video.channelId, video.channelTitle, "">>
\* line 22
channel_key(video) ==
    <<video.channelId, video.channelTitle,
      IF "channelAvatarUrl" \in DOMAIN video THEN video.channelAvatarUrl ELSE "">>

\* line 23: channels[channel_key].append(video); a dict keeps its keys in
\* the order of their insertion.  A group is <<key, videos>>.
AppendTo(channels, key, video) ==
    IF \E g \in 1..Len(channels) : channels[g][1] = key
    THEN [g \in 1..Len(channels) |->
            IF channels[g][1] = key
            THEN <<key, Append(channels[g][2], video)>> ELSE channels[g]]
    ELSE Append(channels, <<key, <<video>>>>)

\* lines 21-23
RECURSIVE GroupLoop(_, _)
GroupLoop(channels, vs) ==
    IF vs = <<>> THEN channels
    ELSE GroupLoop(AppendTo(channels, channel_key(Head(vs)), Head(vs)), Tail(vs))

\* sorted(items, key=..., reverse=True): in descending order of the key,
\* items of equal key in their original order.  Insert(done, x) puts x
\* behind every item whose key is at least the key of x.
InsertDescending(done, x) ==
    LET n == Cardinality({k \in 1..Len(done) : Len(done[k][2]) >= Len(x[2])})
    IN  SubSeq(done, 1, n) \o <<x>> \o SubSeq(done, n + 1, Len(done))
RECURSIVE SortFrom(_, _)
SortFrom(done, rest) ==
    IF rest = <<>> THEN done
    ELSE SortFrom(InsertDescending(done, Head(rest)), Tail(rest))
\* faulty variant: sorted(items, key=...)[::-1]
SortedThenReversed(items) ==
    LET InsertAscending(done, x) ==
            LET n == Cardinality({k \in 1..Len(done) : Len(done[k][2]) <= Len(x[2])})
            IN  SubSeq(done, 1, n) \o <<x>> \o SubSeq(done, n + 1, Len(done))
        asc[k \in 0..Len(items)] ==
            IF k = 0 THEN <<>> ELSE InsertAscending(asc[k - 1], items[k])
    IN  Reverse(asc[Len(items)])
\* line 26
SortedByCountDescending(items) == SortFrom(<<>>, items)

\* lines 17-28
group_videos_by_channel(vs) == SortedByCountDescending(GroupLoop(<<>>, vs))

(***************************************************************************)
(* main() of fetch_channel_avatars.py, one action per step.                *)
(***************************************************************************)
Exit(code, why) ==
    /\ pc' = "done"
    /\ exitCode' = code
    /\ fatal' = why

\* line 164
Load ==
    /\ pc = "load"
    /\ IF LoadRaises(files[DATA_JSON_PATH])
       THEN Exit(1, "load") /\ UNCHANGED data
       ELSE /\ data' = load_json_data(files[DATA_JSON_PATH])
            /\ pc' = "backup"
            /\ UNCHANGED <<exitCode, fatal>>
    /\ UNCHANGED <<YOUTUBE_API_KEY, files, channel_ids, i, avatar_urls, original,
                   requests, chunkLog, writes>>

\* save_json_data(d, path) as called by main, which goes on at `next`
Save(d, path, next) ==
    \E outcome \in WriteOutcomes :
        /\ files' = [files EXCEPT ![path] = save_json_data(d, files[path], outcome)]
        /\ writes' = Append(writes, <<path, outcome>>)
        /\ IF SaveExits(outcome)
           THEN Exit(1, "save")
           ELSE pc' = next /\ UNCHANGED <<exitCode, fatal>>

\* line 168
Backup ==
    /\ pc = "backup"
    /\ Save(data, BACKUP_PATH, "extract")
    /\ UNCHANGED <<YOUTUBE_API_KEY, data, channel_ids, i, avatar_urls, original,
                   requests, chunkLog>>

\* lines 172-176, and list(channel_ids) of line 180
Extract ==
    /\ pc = "extract"
    /\ IF extract_unique_channel_ids(data) = {}
       THEN Exit(1, "empty") /\ UNCHANGED channel_ids
       ELSE /\ channel_ids' \in ListOrders(data)
            /\ pc' = "fetch"
            /\ UNCHANGED <<exitCode, fatal>>
    /\ UNCHANGED <<YOUTUBE_API_KEY, files, data, i, avatar_urls, original,
                   requests, chunkLog, writes>>

\* lines 79-86
FetchEnter ==
    /\ pc = "fetch"
    /\ IF ~KeyConfigured(YOUTUBE_API_KEY)
       THEN Exit(1, "key") /\ UNCHANGED <<i, avatar_urls>>
       ELSE /\ i' = 0
            /\ avatar_urls' = EmptyMap
            /\ pc' = "loop"
            /\ UNCHANGED <<exitCode, fatal>>
    /\ UNCHANGED <<YOUTUBE_API_KEY, files, data, channel_ids, original,
                   requests, chunkLog, writes>>

\* lines 88-140: one iteration of the loop, from the request to the end of
\* the try statement; `continue` and the normal end both go to the next i
\* faulty variant: a batch that raised is requested again
NextIndexRetry(k, raised) == IF raised THEN k ELSE k + batch_size
NextIndex(k, raised) == k + batch_size
FetchChunk ==
    /\ pc = "loop"
    /\ i < Len(channel_ids)
    /\ LET batch == Batch(channel_ids, i) IN
       \E answer \in Answers(batch) :
          LET res == HandleAnswer(avatar_urls, answer) IN
          /\ requests' = Append(requests, batch)
          /\ avatar_urls' = res.urls
          /\ chunkLog' = Append(chunkLog,
                                [raised |-> res.raised,
                                 resolved |-> Delta(avatar_urls, res.urls)])
          /\ i' = NextIndex(i, res.raised)
    /\ UNCHANGED <<YOUTUBE_API_KEY, files, pc, exitCode, fatal, data, channel_ids,
                   original, writes>>

\* lines 142-143
FetchReturn ==
    /\ pc = "loop"
    /\ i >= Len(channel_ids)
    /\ pc' = "fetched"
    /\ UNCHANGED <<YOUTUBE_API_KEY, files, exitCode, fatal, data, channel_ids, i,
                   avatar_urls, original, requests, chunkLog, writes>>

\* lines 182-184
CheckAvatars ==
    /\ pc = "fetched"
    /\ IF avatar_urls = EmptyMap
       THEN Exit(1, "noavatar")
       ELSE pc' = "merge" /\ UNCHANGED <<exitCode, fatal>>
    /\ UNCHANGED <<YOUTUBE_API_KEY, files, data, channel_ids, i, avatar_urls,
                   original, requests, chunkLog, writes>>

\* line 188
Merge ==
    /\ pc = "merge"
    /\ data' = enrich_data_with_avatars(data, avatar_urls)
    /\ pc' = "save"
    /\ UNCHANGED <<YOUTUBE_API_KEY, files, exitCode, fatal, channel_ids, i,
                   avatar_urls, original, requests, chunkLog, writes>>

\* lines 192-201
SaveMain ==
    /\ pc = "save"
    /\ Save(data, DATA_JSON_PATH, "done")
    /\ UNCHANGED <<YOUTUBE_API_KEY, data, channel_ids, i, avatar_urls, original,
                   requests, chunkLog>>

ApiKeys == {"", PLACEHOLDER_KEY, "AIza"}
DatasetFiles ==
    {File("ok", json_dump(c)) : c \in Collections} \cup {File("missing", <<>>), File("invalid", <<>>)}
BackupFiles == {File("missing", <<>>), File("ok", json_dump(<<Record(1, 1, "old")>>))}

ReportIdle ==
    /\ videos = <<>>
    /\ sorted_channels = <<>>
    /\ rpc = "idle"
PureIdle ==
    /\ m_data = <<>> /\ m_urls = EmptyMap /\ m_once = <<>> /\ m_twice = <<>>
    /\ m_pc = "idle"
    /\ s_before = EmptyMap /\ s_items = <<>> /\ s_after = <<>> /\ s_pc = "idle"

Init ==
    /\ YOUTUBE_API_KEY \in ApiKeys
    /\ \E f \in DatasetFiles, b \in BackupFiles :
          /\ files = (DATA_JSON_PATH :> f) @@ (BACKUP_PATH :> b)
          /\ original = f
    /\ pc = "load"
    /\ exitCode = 0
    /\ fatal = "none"
    /\ data = <<>>
    /\ channel_ids = <<>>
    /\ i = 0
    /\ avatar_urls = EmptyMap
    /\ requests = <<>>
    /\ chunkLog = <<>>
    /\ writes = <<>>
    /\ ReportIdle
    /\ PureIdle

Next ==
    \/ (Load /\ UNCHANGED <<report_vars, pure_vars>>)
    \/ (Backup /\ UNCHANGED <<report_vars, pure_vars>>)
    \/ (Extract /\ UNCHANGED <<report_vars, pure_vars>>)
    \/ (FetchEnter /\ UNCHANGED <<report_vars, pure_vars>>)
    \/ (FetchChunk /\ UNCHANGED <<report_vars, pure_vars>>)
    \/ (FetchReturn /\ UNCHANGED <<report_vars, pure_vars>>)
    \/ (CheckAvatars /\ UNCHANGED <<report_vars, pure_vars>>)
    \/ (Merge /\ UNCHANGED <<report_vars, pure_vars>>)
    \/ (SaveMain /\ UNCHANGED <<report_vars, pure_vars>>)

Spec == Init /\ [][Next]_vars

(***************************************************************************)
(* The Batch Fetcher on its own: fetch_channel_avatars_batch(channel_ids)  *)
(* called on a list of unique ids, up to its return or its fatal exit.     *)
(***************************************************************************)
InitFetch ==
    /\ YOUTUBE_API_KEY \in ApiKeys
    /\ channel_ids \in IdLists
    /\ pc = "fetch"
    /\ files = (DATA_JSON_PATH :> File("missing", <<>>))
                  @@ (BACKUP_PATH :> File("missing", <<>>))
    /\ original = File("missing", <<>>)
    /\ exitCode = 0
    /\ fatal = "none"
    /\ data = <<>>
    /\ i = 0
    /\ avatar_urls = EmptyMap
    /\ requests = <<>>
    /\ chunkLog = <<>>
    /\ writes = <<>>
    /\ ReportIdle
    /\ PureIdle

NextFetch ==
    \/ (FetchEnter /\ UNCHANGED <<report_vars, pure_vars>>)
    \/ (FetchChunk /\ UNCHANGED <<report_vars, pure_vars>>)
    \/ (FetchReturn /\ UNCHANGED <<report_vars, pure_vars>>)

SpecFetch == InitFetch /\ [][NextFetch]_vars


(***************************************************************************)
(* The loop over the items of one answer, on its own (lines 109-127).      *)
(***************************************************************************)
\* thumbnails with every set of qualities; the URL of the best quality
\* present may be empty
ItemThumbnails(c) ==
    {Thumbnails(c, Q) : Q \in SUBSET Range(Qualities)}
    \cup {ThumbnailsWith(c, Q, {q}) :
            Q \in SUBSET Range(Qualities), q \in Range(Qualities)}
LoopItems ==
    UNION {{Item(c, TRUE, t) : t \in ItemThumbnails(c)} : c \in {ChannelId(1), ChannelId(2)}}
    \cup {Item(ChannelId(1), FALSE, <<>>)}
LoopMaps == {EmptyMap, [UC1 |-> "UC1/earlier"]}

RunIdle ==
    /\ YOUTUBE_API_KEY = "" /\ pc = "idle" /\ exitCode = 0 /\ fatal = "none"
    /\ files = <<>> /\ original = File("missing", <<>>)
    /\ data = <<>> /\ channel_ids = <<>> /\ i = 0 /\ avatar_urls = EmptyMap
    /\ requests = <<>> /\ chunkLog = <<>> /\ writes = <<>>

InitLoop ==
    /\ RunIdle
    /\ ReportIdle
    /\ s_before \in LoopMaps
    /\ s_items \in SeqsUpTo(LoopItems, MaxItems)
    /\ s_after = [urls |-> EmptyMap, raised |-> FALSE]
    /\ s_pc = "ready"
    /\ m_data = <<>> /\ m_urls = EmptyMap /\ m_once = <<>> /\ m_twice = <<>>
    /\ m_pc = "idle"

RunLoop ==
    /\ s_pc = "ready"
    /\ s_after' = ProcessItems(s_before, s_items)
    /\ s_pc' = "done"
    /\ UNCHANGED <<s_before, s_items, m_data, m_urls, m_once, m_twice, m_pc>>

NextLoop == RunLoop /\ UNCHANGED <<run_vars, report_vars>>
SpecLoop == InitLoop /\ [][NextLoop]_vars

(***************************************************************************)
(* The Merger on its own: enrich_data_with_avatars applied once, then      *)
(* again with the same map.                                                *)
(***************************************************************************)
MergeShapes == {<<ch, a>> : ch \in 0..2, a \in {None, "old"}}
MergeCollections ==
    UNION {{[k \in 1..n |-> Record(k, s[k][1], s[k][2])] : s \in [1..n -> MergeShapes]}
           : n \in 0..MaxRecords}
MergeMaps ==
    UNION {[D -> {"old", "new"}] : D \in SUBSET {ChannelId(1), ChannelId(2)}}

InitMerge ==
    /\ RunIdle
    /\ ReportIdle
    /\ m_data \in MergeCollections
    /\ m_urls \in MergeMaps
    /\ m_once = <<>>
    /\ m_twice = <<>>
    /\ m_pc = "ready"
    /\ s_before = EmptyMap /\ s_items = <<>> /\ s_after = <<>> /\ s_pc = "idle"

MergeOnce ==
    /\ m_pc = "ready"
    /\ m_once' = enrich_data_with_avatars(m_data, m_urls)
    /\ m_pc' = "once"
    /\ UNCHANGED <<m_data, m_urls, m_twice, s_before, s_items, s_after, s_pc>>

MergeTwice ==
    /\ m_pc = "once"
    /\ m_twice' = enrich_data_with_avatars(m_once, m_urls)
    /\ m_pc' = "twice"
    /\ UNCHANGED <<m_data, m_urls, m_once, s_before, s_items, s_after, s_pc>>

NextMerge ==
    \/ (MergeOnce /\ UNCHANGED <<run_vars, report_vars>>)
    \/ (MergeTwice /\ UNCHANGED <<run_vars, report_vars>>)
SpecMerge == InitMerge /\ [][NextMerge]_vars

(***************************************************************************)
(* The Grouper of the report pipeline.                                     *)
(***************************************************************************)
\* records of two channels; of channel 1 also with another title, with an
\* empty avatar and with an avatar; and a record without channelId
ReportRecord(k, shape) ==
    CASE shape = "1" -> Record(k, 1, None)
      [] shape = "1-renamed" -> [Record(k, 1, None) EXCEPT !.channelTitle = "T1 (new)"]
      [] shape = "1-empty" -> Record(k, 1, "")
      [] shape = "1-avatar" -> Record(k, 1, "UC1/high")
      [] shape = "2" -> Record(k, 2, None)
      [] OTHER -> Record(k, 0, None)
ReportShapes == {"1", "1-renamed", "1-empty", "1-avatar", "2", "none"}
ReportCollections ==
    UNION {{[k \in 1..n |-> ReportRecord(k, s[k])] : s \in [1..n -> ReportShapes]}
           : n \in 0..MaxVideos}

InitReport ==
    /\ RunIdle
    /\ PureIdle
    /\ videos \in ReportCollections
    /\ sorted_channels = <<>>
    /\ rpc = "ready"

\* lines 17-28; an uncaught KeyError ends the script
Group ==
    /\ rpc = "ready"
    /\ IF \E k \in 1..Len(videos) : KeyRaises(videos[k])
       THEN rpc' = "KeyError" /\ UNCHANGED sorted_channels
       ELSE /\ sorted_channels' = group_videos_by_channel(videos)
            /\ rpc' = "done"
    /\ UNCHANGED videos

NextReport == Group /\ UNCHANGED <<run_vars, pure_vars>>
SpecReport == InitReport /\ [][NextReport]_vars

(***************************************************************************)
(* Properties of the Batch Fetcher (checked under SpecFetch).              *)
(***************************************************************************)
CeilDiv(n, d) == (n + d - 1) \div d
Chunks == 1..Len(chunkLog)
FailedChunks == {k \in Chunks : chunkLog[k].raised}
OkChunks == Chunks \ FailedChunks
\* the union of the entries recorded by the chunks K
ResolvedBy(K) ==
    [c \in UNION {DOMAIN chunkLog[k].resolved : k \in K} |->
        chunkLog[CHOOSE k \in K : c \in DOMAIN chunkLog[k].resolved].resolved[c]]

\* C1: when the Batch Fetcher returns, every batch has been requested, the
\* map is exactly the union of what the chunks that did not fail resolved,
\* and no channel of a chunk that failed is a key of the map.
C1_OnlyOkChunksInMap ==
    pc = "fetched" =>
        /\ Len(requests) = CeilDiv(Len(channel_ids), 50)
        /\ Len(chunkLog) = Len(requests)
        /\ avatar_urls = ResolvedBy(OkChunks)
        /\ \A k \in FailedChunks : \A c \in Range(requests[k]) : c \notin DOMAIN avatar_urls

\* what the code does instead: the map is the union of what all the chunks
\* recorded, the entries a failed chunk recorded before it raised included
C1_AllRecordedEntriesKept ==
    pc = "fetched" =>
        /\ Len(requests) = CeilDiv(Len(channel_ids), 50)
        /\ Len(chunkLog) = Len(requests)
        /\ avatar_urls = ResolvedBy(Chunks)
        /\ \A k \in Chunks : DOMAIN chunkLog[k].resolved \subseteq Range(requests[k])
C1_PartialFailure ==
    /\ pc = "fetched"
    /\ \E k \in FailedChunks : chunkLog[k].resolved /= EmptyMap

\* C4: N unique ids are fetched with exactly ceil(N/50) requests of 1 to 50
\* ids each; the batches are pairwise disjoint, cover the input, and no
\* batch is requested twice, whether or not a chunk fails.
C4_RequestsPartitionInput ==
    /\ Len(requests) = Len(chunkLog)
    /\ Len(requests) <= CeilDiv(Len(channel_ids), 50)
    /\ \A k \in 1..Len(requests) :
          /\ Len(requests[k]) >= 1
          /\ Len(requests[k]) <= 50
          /\ Cardinality(Range(requests[k])) = Len(requests[k])
    /\ \A j, k \in 1..Len(requests) :
          j /= k => Range(requests[j]) \cap Range(requests[k]) = {}
    /\ pc = "fetched" =>
          /\ Len(requests) = CeilDiv(Len(channel_ids), 50)
          /\ UNION {Range(requests[k]) : k \in 1..Len(requests)} = Range(channel_ids)
C4_Witness ==
    /\ pc = "fetched"
    /\ Len(channel_ids) = 2 * batch_size + 1
    /\ Len(requests) = 3
    /\ FailedChunks /= {}
    /\ OkChunks /= {}

\* C7: with the credential unset or the placeholder, no request is ever
\* issued: the Batch Fetcher exits the process with status 1 at once.
C7_NoRequestWithoutKey ==
    (YOUTUBE_API_KEY = "" \/ YOUTUBE_API_KEY = PLACEHOLDER_KEY) =>
        /\ requests = <<>>
        /\ pc \in {"fetch", "done"}
        /\ pc = "done" => exitCode = 1 /\ fatal = "key"
C7_Witness ==
    /\ YOUTUBE_API_KEY = PLACEHOLDER_KEY
    /\ Len(channel_ids) > batch_size
    /\ pc = "done"
    /\ fatal = "key"

(***************************************************************************)
(* Properties of a whole run of the enrichment (checked under Spec).       *)
(***************************************************************************)
LoadFailed == original.st /= "ok"
\* the collection as loaded
Loaded == json_load(original.val)
SaveFailed == \E k \in 1..Len(writes) : writes[k][2] /= "ok"
KeyMissing == YOUTUBE_API_KEY = "" \/ YOUTUBE_API_KEY = PLACEHOLDER_KEY
NoChannelIds == ~LoadFailed /\ extract_unique_channel_ids(Loaded) = {}
NoAvatarResolved == avatar_urls = EmptyMap
DatasetWrites == {k \in 1..Len(writes) : writes[k][1] = DATA_JSON_PATH}
CompletedNormally ==
    /\ exitCode = 0
    /\ fatal = "none"
    /\ Len(writes) = 2
    /\ writes[2] = <<DATA_JSON_PATH, "ok">>
    /\ files[DATA_JSON_PATH].st = "ok"
    /\ json_load(files[DATA_JSON_PATH].val) = data

\* C2, as stated: the process exits non-zero if and only if the load fails,
\* a save fails, the credential is missing or there is no channel id; every
\* other run ends with status 0 after writing the dataset file.
C2_NonZeroIffFourCauses ==
    pc = "done" =>
        /\ exitCode /= 0 <=> (LoadFailed \/ SaveFailed \/ KeyMissing \/ NoChannelIds)
        /\ exitCode = 0 => CompletedNormally

\* C2, amended: ... or the Batch Fetcher resolved no avatar at all; every
\* other run, runs where some chunks fail included, ends with status 0
\* after writing the dataset file.
C2_NonZeroIffFiveCauses ==
    pc = "done" =>
        /\ exitCode \in {0, 1}
        /\ exitCode /= 0 <=> (LoadFailed \/ SaveFailed \/ KeyMissing \/ NoChannelIds
                                \/ NoAvatarResolved)
        /\ exitCode = 0 => CompletedNormally
C2_Witness ==
    /\ pc = "done"
    /\ exitCode = 0
    /\ FailedChunks /= {}
    /\ \E c \in Range(channel_ids) : c \notin DOMAIN avatar_urls

\* C3: the backup is written, with the collection as loaded, before the
\* collection in memory changes and before the dataset file is written; the
\* dataset file is written at most once, with the whole merged collection,
\* and holds its original content as long as that write has not started.
C3_BackupBeforeMutation ==
    /\ (pc /= "load" /\ data /= Loaded) =>
          /\ Len(writes) >= 1
          /\ writes[1] = <<BACKUP_PATH, "ok">>
    /\ (Len(writes) >= 1 /\ writes[1] = <<BACKUP_PATH, "ok">>) =>
          /\ files[BACKUP_PATH].st = "ok"
          /\ json_load(files[BACKUP_PATH].val) = Loaded
    /\ Cardinality(DatasetWrites) <= 1
    /\ DatasetWrites = {} => files[DATA_JSON_PATH] = original
    /\ DatasetWrites /= {} =>
          /\ DatasetWrites = {2}
          /\ writes[1] = <<BACKUP_PATH, "ok">>
          /\ pc = "done"
          /\ data = enrich_data_with_avatars(Loaded, avatar_urls)
          /\ writes[2][2] = "ok" =>
                /\ files[DATA_JSON_PATH].st = "ok"
                /\ json_load(files[DATA_JSON_PATH].val) = data
C3_Witness ==
    /\ pc = "done"
    /\ exitCode = 0
    /\ data /= Loaded
    /\ files[BACKUP_PATH].st = "ok"
    /\ json_load(files[BACKUP_PATH].val) = Loaded
    /\ files[DATA_JSON_PATH].st = "ok"
    /\ json_load(files[DATA_JSON_PATH].val) = data
\* a fatal exit before the final save, after the backup
C3_WitnessFatal ==
    /\ pc = "done"
    /\ fatal = "noavatar"
    /\ files[DATA_JSON_PATH] = original
    /\ json_load(files[BACKUP_PATH].val) = Loaded

(***************************************************************************)
(* Properties of the loop over the items (checked under SpecLoop).         *)
(***************************************************************************)
\* the URL of the best quality an item holds, by the order of the claim
BestUrl(item) ==
    IF "high" \in DOMAIN item.thumbnails THEN item.thumbnails["high"].url
    ELSE IF "medium" \in DOMAIN item.thumbnails THEN item.thumbnails["medium"].url
    ELSE IF "default" \in DOMAIN item.thumbnails THEN item.thumbnails["default"].url
    ELSE None
\* the items read before the first one that raises
ReadItems ==
    {p \in 1..Len(s_items) : \A q \in 1..p : s_items[q].wf}
\* the items that record an avatar for channel c
Recording(c) == {p \in ReadItems : s_items[p].id = c /\ Truthy(BestUrl(s_items[p]))}
Last(P) == CHOOSE p \in P : \A q \in P : q <= p

\* C5: the avatar recorded for a channel is the URL of the first quality
\* present among high, medium, default of its (last) item; an item with none
\* of the three is left out of the map without raising, and the items after
\* it are still read.
C5_BestThumbnailRecorded ==
    s_pc = "done" =>
        /\ s_after.raised = (ReadItems /= 1..Len(s_items))
        /\ DOMAIN s_after.urls =
              DOMAIN s_before \cup {s_items[p].id : p \in {q \in ReadItems :
                                        Truthy(BestUrl(s_items[q]))}}
        /\ \A c \in DOMAIN s_after.urls :
              s_after.urls[c] = IF Recording(c) = {} THEN s_before[c]
                                ELSE BestUrl(s_items[Last(Recording(c))])
C5_Witness ==
    /\ s_pc = "done"
    /\ Len(s_items) = 2
    /\ DOMAIN s_items[1].thumbnails = {}
    /\ s_items[1].wf
    /\ s_items[1].id = "UC2"
    /\ DOMAIN s_items[2].thumbnails = {"medium", "default"}
    /\ s_before = EmptyMap
    /\ s_after = [urls |-> [UC1 |-> "UC1/medium"], raised |-> FALSE]

(***************************************************************************)
(* Properties of the Merger (checked under SpecMerge).                     *)
(***************************************************************************)
InMap(r) == "channelId" \in DOMAIN r /\ r.channelId \in DOMAIN m_urls

\* C6: the Merger sets channelAvatarUrl of the records whose channelId is a
\* key of the map to the mapped value and changes nothing else: the other
\* records, the other fields, the number and the order of the records.
C6_OnlyAvatarOfMappedRecords ==
    m_pc /= "ready" =>
        /\ Len(m_once) = Len(m_data)
        /\ \A k \in 1..Len(m_data) :
              IF InMap(m_data[k])
              THEN /\ DOMAIN m_once[k] = DOMAIN m_data[k] \cup {"channelAvatarUrl"}
                   /\ m_once[k].channelAvatarUrl = m_urls[m_data[k].channelId]
                   /\ \A f \in DOMAIN m_data[k] \ {"channelAvatarUrl"} :
                         m_once[k][f] = m_data[k][f]
              ELSE m_once[k] = m_data[k]
C6_Witness ==
    /\ m_pc = "once"
    /\ Len(m_data) = 3
    /\ InMap(m_data[1]) /\ "channelAvatarUrl" \notin DOMAIN m_data[1]
    /\ "channelId" \notin DOMAIN m_data[2]
    /\ "channelId" \in DOMAIN m_data[3] /\ ~InMap(m_data[3])
    /\ m_once /= m_data

\* C8: merging twice with the same map gives the collection that merging
\* once gives.
C8_MergeIdempotent == m_pc = "twice" => m_twice = m_once
C8_Witness ==
    /\ m_pc = "twice"
    /\ m_once /= m_data
    /\ \E k \in 1..Len(m_data) :
          /\ InMap(m_data[k])
          /\ "channelAvatarUrl" \in DOMAIN m_data[k]
          /\ m_data[k].channelAvatarUrl /= m_urls[m_data[k].channelId]

(***************************************************************************)
(* Properties of the Grouper (checked under SpecReport).                   *)
(***************************************************************************)
\* the composite key of the claim
CompositeKey(r) ==
    <<r.channelId, r.channelTitle,
      IF "channelAvatarUrl" \in DOMAIN r THEN r.channelAvatarUrl ELSE "">>
Groups == 1..Len(sorted_channels)
Members(g) == sorted_channels[g][2]
RECURSIVE SumOfSizes(_)
SumOfSizes(g) == IF g = 0 THEN 0 ELSE Len(Members(g)) + SumOfSizes(g - 1)
\* where a record of the input is found in the groups
Places(k) == {<<g, p>> \in Groups \X (1..Len(videos)) :
                p <= Len(Members(g)) /\ Members(g)[p] = videos[k]}
FirstSeen(key) == CHOOSE k \in 1..Len(videos) :
                    /\ CompositeKey(videos[k]) = key
                    /\ \A j \in 1..(k - 1) : CompositeKey(videos[j]) /= key

\* C9: the groups are a partition of the records by the composite key:
\* every record is in exactly one group, the records of a group have the
\* key of the group, two groups have different keys, and the sizes add up
\* to the number of records.
C9_GroupsPartitionRecords ==
    rpc = "done" =>
        /\ \A k \in 1..Len(videos) : Cardinality(Places(k)) = 1
        /\ \A g \in Groups :
              /\ Members(g) /= <<>>
              /\ \A p \in 1..Len(Members(g)) :
                    CompositeKey(Members(g)[p]) = sorted_channels[g][1]
        /\ \A g, h \in Groups : g /= h => sorted_channels[g][1] /= sorted_channels[h][1]
        /\ SumOfSizes(Len(sorted_channels)) = Len(videos)
C9_Witness ==
    /\ rpc = "done"
    /\ Len(videos) = 4
    /\ Len(sorted_channels) = 3
    /\ \E j, k \in 1..Len(videos) :
          /\ videos[j].channelId = videos[k].channelId
          /\ CompositeKey(videos[j]) /= CompositeKey(videos[k])

\* C10: the groups come in non-increasing order of size, groups of equal
\* size in the order in which their keys are first met in the input, and
\* the records of a group in their input order.
C10_OrderedByCountThenFirstSeen ==
    rpc = "done" =>
        /\ \A g, h \in Groups : g < h =>
              \/ Len(Members(g)) > Len(Members(h))
              \/ /\ Len(Members(g)) = Len(Members(h))
                 /\ FirstSeen(sorted_channels[g][1]) < FirstSeen(sorted_channels[h][1])
        /\ \A g \in Groups :
              Members(g) = SelectSeq(videos,
                              LAMBDA r : CompositeKey(r) = sorted_channels[g][1])
C10_Witness ==
    /\ rpc = "done"
    /\ Len(sorted_channels) = 3
    /\ Len(Members(1)) = 2
    /\ Len(Members(2)) = 1
    /\ FirstSeen(sorted_channels[1][1]) > FirstSeen(sorted_channels[3][1])
    /\ Members(1)[1] /= videos[1]

=============================================================================
